---- MODULE Spec2Model ----
(***************************************************************************)
(* A model of src/huffman.py: the Huffman codec (frequency table, tree     *)
(* builder, code table, node numbering, tree serialisation and the two     *)
(* deserialisers, the bit packer and unpacker, and improve_tree).          *)
(*                                                                         *)
(* Python values are modelled as follows.                                  *)
(*   bytes / list of int : a sequence of integers                          *)
(*   bit string ('0101') : a sequence over {0, 1}                          *)
(*   None (symbol/number): the integer None (-1)                           *)
(*   HuffmanNode         : [symbol, number, kids], kids = <<>> for a node  *)
(*                         whose left and right are None, <<l, r>> else    *)
(*   a None tree         : NoneTree                                        *)
(*   dict in insertion order (freq_dict): a sequence of <<key, value>>     *)
(*   dict read by key only (codes)      : a function                       *)
(*   a call that may raise: [err |-> "none" or the exception, val |-> ...] *)
(***************************************************************************)
EXTENDS Integers, Sequences, FiniteSets, TLC

VARIABLES pc, text, freq, worklist, tree, codes, result, node_lst, gen_tree,
          post_tree, old_tree, t, size, out, err

vars == <<pc, text, freq, worklist, tree, codes, result, node_lst, gen_tree,
          post_tree, old_tree, t, size, out, err>>

\* ---------------------------------------------------------------- bounds
MaxSymbol == 4
MaxLen == 4
MaxLeaves == 4
MaxCodeLen == 3
MaxPackLen == 3

Symbols == 0..MaxSymbol

\* ------------------------------------------------------- python values
None == -1

NoneTree == [symbol |-> -2, number |-> None, kids |-> <<>>]

\* HuffmanNode(symbol): a leaf; HuffmanNode(): a placeholder (symbol None).
Leaf(s) == [symbol |-> s, number |-> None, kids |-> <<>>]

\* HuffmanNode(None, left, right)
Node(l, r) == [symbol |-> None, number |-> None, kids |-> <<l, r>>]

Left(n) == n.kids[1]

Right(n) == n.kids[2]

\* HuffmanNode.is_leaf: not self.left and not self.right
is_leaf(n) == n.kids = <<>>

\* Python truthiness of a symbol: None and 0 are falsy.
Falsy(s) == s = None \/ s = 0

\* `tree.symbol or tree.symbol == 0`
HasSymbol(n) == n.symbol # None

Ok(v) == [err |-> "none", val |-> v]

Raise(e) == [err |-> e, val |-> <<>>]

\* bytes(lst): every element must be an int in range(256).
IsByte(x) == x \in 0..255

RECURSIVE Concat(_)
Concat(ss) == IF ss = <<>> THEN <<>> ELSE Head(ss) \o Concat(Tail(ss))

RECURSIVE SumSeq(_)
SumSeq(s) == IF s = <<>> THEN 0 ELSE Head(s) + SumSeq(Tail(s))

Range(s) == {s[i] : i \in DOMAIN s}

Pow2(n) == 2 ^ n

\* ------------------------------------------------------ dict helpers
DictKeys(d) == {d[i][1] : i \in DOMAIN d}

DictGet(d, k) == (CHOOSE i \in DOMAIN d : d[i][1] = k)

DictVal(d, k) == d[DictGet(d, k)][2]

\* d[k] = v: a new key is appended, an existing key keeps its place.
DictSet(d, k, v) ==
  IF k \in DictKeys(d)
  THEN [d EXCEPT ![DictGet(d, k)] = <<k, v>>]
  ELSE Append(d, <<k, v>>)

\* ------------------------------------------------------ byte helpers
get_bit(byte, bit_num) == (byte \div Pow2(bit_num)) % 2

byte_to_bits(byte) == [i \in 1..8 |-> get_bit(byte, 8 - i)]

bits_to_byte(bits) == SumSeq([pos \in 1..Len(bits) |-> bits[pos] * Pow2(8 - pos)])

\* ------------------------------------------------------ make_freq_dict
RECURSIVE make_freq_from(_, _)
make_freq_from(d, txt) ==
  IF txt = <<>> THEN d
  ELSE LET e == Head(txt)
           old == IF e \in DictKeys(d) THEN DictVal(d, e) ELSE 0
       IN make_freq_from(DictSet(d, e, old + 1), Tail(txt))

make_freq_dict(txt) == make_freq_from(<<>>, txt)

\* ------------------------------------------------------ tree builder
\* A work item (count, x) of huffman_tree: x is a HuffmanNode (node = <<n>>)
\* or the pair of the two items it combines (pair = <<a, b>>).
Tup(f, n) == [freq |-> f, node |-> <<n>>, pair |-> <<>>]

Comb(f, a, b) == [freq |-> f, node |-> <<>>, pair |-> <<a, b>>]

\* HuffmanNode.__eq__: same symbol, left and right (number is not compared).
RECURSIVE NodeEq(_, _)
NodeEq(a, b) ==
  /\ a.symbol = b.symbol
  /\ is_leaf(a) = is_leaf(b)
  /\ (~is_leaf(a) => NodeEq(Left(a), Left(b)) /\ NodeEq(Right(a), Right(b)))

\* HuffmanNode.__lt__, the tie-break of equal counts: the smaller symbol first.
NodeLt(a, b) == a.symbol < b.symbol

\* (count, node) < (count, node), Python's tuple order.
TupLt(a, b) ==
  \/ a.freq < b.freq
  \/ /\ a.freq = b.freq
     /\ ~NodeEq(a.node[1], b.node[1])
     /\ NodeLt(a.node[1], b.node[1])

\* list.sort() is stable: x goes before the first element it is less than.
RECURSIVE InsertTup(_, _)
InsertTup(x, s) ==
  IF s = <<>> THEN <<x>>
  ELSE IF TupLt(x, Head(s)) THEN <<x>> \o s
  ELSE <<Head(s)>> \o InsertTup(x, Tail(s))

RECURSIVE SortTups(_, _)
SortTups(done, todo) ==
  IF todo = <<>> THEN done
  ELSE SortTups(InsertTup(Head(todo), done), Tail(todo))

sort_freq(freq_dict) ==
  SortTups(<<>>, [i \in DOMAIN freq_dict |->
                    Tup(freq_dict[i][2], Leaf(freq_dict[i][1]))])

\* sorted_tup.sort(key=lambda tup: tup[0]), stable.
RECURSIVE InsertByFreq(_, _)
InsertByFreq(x, s) ==
  IF s = <<>> THEN <<x>>
  ELSE IF x.freq < Head(s).freq THEN <<x>> \o s
  ELSE <<Head(s)>> \o InsertByFreq(x, Tail(s))

RECURSIVE SortByFreq(_, _)
SortByFreq(done, todo) ==
  IF todo = <<>> THEN done
  ELSE SortByFreq(InsertByFreq(Head(todo), done), Tail(todo))

RECURSIVE deduct_freq(_)
deduct_freq(tup) ==
  IF tup.node # <<>> THEN tup.node[1]
  ELSE Node(deduct_freq(tup.pair[1]), deduct_freq(tup.pair[2]))

\* MergeLeast without the sort by count: the first two items become one.
MergeLeast_unsorted(sorted_tup) ==
  LET s == sorted_tup
      comb_freq == s[1].freq + s[2].freq
  IN SubSeq(s, 3, Len(s)) \o <<Comb(comb_freq, s[1], s[2])>>

\* One pass of huffman_tree's internal(): the two least items become one.
MergeLeast(sorted_tup) ==
  LET s == SortByFreq(<<>>, sorted_tup)
      comb_freq == s[1].freq + s[2].freq
  IN SubSeq(s, 3, Len(s)) \o <<Comb(comb_freq, s[1], s[2])>>

RECURSIVE ht_internal(_, _)
ht_internal(n, sorted_tup) ==
  IF n = 1 THEN sorted_tup[1].node[1]
  ELSE IF sorted_tup = <<>> THEN NoneTree
  ELSE IF Len(sorted_tup) = 1
       THEN LET i == deduct_freq(sorted_tup[1]) IN Node(Left(i), Right(i))
  ELSE ht_internal(n, MergeLeast(sorted_tup))

huffman_tree(freq_tup) == ht_internal(Len(freq_tup), sort_freq(freq_tup))

\* ------------------------------------------------------ get_codes
EmptyDict == <<>>

\* d[k] = v for every entry of g, over what f holds.
Override(f, g) ==
  [x \in (DOMAIN f) \cup (DOMAIN g) |-> IF x \in DOMAIN g THEN g[x] ELSE f[x]]

RECURSIVE gc_internal(_, _)
\* gc_internal with the right branch given '0' like the left one.
gc_internal_same_bit(n, byte) ==
  LET own == IF HasSymbol(n) THEN [x \in {n.symbol} |-> byte] ELSE EmptyDict
  IN IF is_leaf(n) THEN own
     ELSE Override(Override(own, gc_internal(Left(n), byte \o <<0>>)),
                   gc_internal(Right(n), byte \o <<0>>))

gc_internal(n, byte) ==
  LET own == IF HasSymbol(n) THEN [x \in {n.symbol} |-> byte] ELSE EmptyDict
  IN IF is_leaf(n) THEN own
     ELSE Override(Override(own, gc_internal(Left(n), byte \o <<0>>)),
                   gc_internal(Right(n), byte \o <<1>>))

get_codes(n) == IF n = NoneTree THEN EmptyDict ELSE gc_internal(n, <<>>)

\* invert_dict, for a dict whose values are distinct.
invert_dict(d) ==
  [c \in {d[k] : k \in DOMAIN d} |-> CHOOSE k \in DOMAIN d : d[k] = c]

\* ------------------------------------------------------ number_nodes
\* internal(tree, n, op): [tree: the tree numbered, n: the value returned,
\* last: l[-1], the last number appended to l].
RECURSIVE nn_internal(_, _, _, _)
\* nn_internal visiting the left subtree before the right one.
nn_internal_left_first(n, k, op, last) ==
  IF is_leaf(n) THEN [tree |-> n, n |-> k, last |-> last]
  ELSE LET l == nn_internal(Left(n), k + op, op, k)
           r == nn_internal(Right(n), l.n, op, l.last)
       IN [tree |-> [n EXCEPT !.number = k, !.kids = <<l.tree, r.tree>>],
           n |-> r.n, last |-> r.last]

nn_internal(n, k, op, last) ==
  IF is_leaf(n) THEN [tree |-> n, n |-> k, last |-> last]
  ELSE LET r == nn_internal(Right(n), k + op, op, k)
           l == nn_internal(Left(n), r.n, op, r.last)
       IN [tree |-> [n EXCEPT !.number = k, !.kids = <<l.tree, r.tree>>],
           n |-> l.n, last |-> l.last]

number_nodes(n) ==
  IF n = NoneTree THEN Raise("AttributeError")
  ELSE IF is_leaf(n) THEN Ok(n)
  ELSE LET up == nn_internal(n, 0, 1, None)
       IN Ok(nn_internal(up.tree, up.last, -1, up.last).tree)

\* ------------------------------------------------------ avg_length
\* round(sums / s, 2) in hundredths, ties to even: the float's own rounding
\* for every s below 40, where a tie is an exact multiple of 1/8.
Round2(sums, s) ==
  LET q == (100 * sums) \div s
      r == (100 * sums) % s
  IN IF 2 * r < s THEN q
     ELSE IF 2 * r > s THEN q + 1
     ELSE IF q % 2 = 0 THEN q ELSE q + 1

RECURSIVE SumOver(_, _, _)
SumOver(keys, cd, fd) ==
  IF keys = {} THEN [sums |-> 0, s |-> 0]
  ELSE LET k == CHOOSE x \in keys : TRUE
           rest == SumOver(keys \ {k}, cd, fd)
       IN [sums |-> rest.sums + Len(cd[k]) * DictVal(fd, k),
           s |-> rest.s + DictVal(fd, k)]

avg_length(n, freq_dict) ==
  IF n = NoneTree THEN Ok(0)
  ELSE LET cd == get_codes(n)
       IN IF ~(DOMAIN cd \subseteq DictKeys(freq_dict)) THEN Raise("KeyError")
          ELSE LET tot == SumOver(DOMAIN cd, cd, freq_dict)
               IN IF tot.s = 0 THEN Raise("ZeroDivisionError")
                  ELSE Ok(Round2(tot.sums, tot.s))

\* ------------------------------------------------------ generate_compressed
Zeros(n) == [i \in 1..n |-> 0]

\* PadLast with the '0' bits put before the last group instead of after it.
PadLast_on_left(comp_list) ==
  LET last == comp_list[Len(comp_list)]
  IN IF Len(last) % 8 # 0
     THEN [comp_list EXCEPT ![Len(comp_list)] = Zeros(8 - Len(last)) \o last]
     ELSE comp_list

\* comp_list[-1] padded with '0' up to a byte.
PadLast(comp_list) ==
  LET last == comp_list[Len(comp_list)]
  IN IF Len(last) % 8 # 0
     THEN [comp_list EXCEPT ![Len(comp_list)] = last \o Zeros(8 - Len(last))]
     ELSE comp_list

\* The 8-bit groups of comp_text, then what follows the last `stop`.
SplitBits(comp_text) ==
  LET comp_len == Len(comp_text)
      end_point == comp_len - (comp_len % 8)
      full == [k \in 1..(end_point \div 8) |->
                 SubSeq(comp_text, 8 * (k - 1) + 1, 8 * k)]
      stop == end_point
      rest == SubSeq(comp_text, stop + 1, comp_len)
  IN IF rest # <<>> THEN Append(full, rest) ELSE full

generate_compressed(txt, cd) ==
  IF \E i \in DOMAIN txt : txt[i] \notin DOMAIN cd THEN Raise("KeyError")
  ELSE LET comp_text == Concat([i \in DOMAIN txt |-> cd[txt[i]]])
           comp_list == SplitBits(comp_text)
       IN IF comp_list = <<>> THEN Raise("IndexError")
          ELSE LET padded == PadLast(comp_list)
               IN Ok([k \in DOMAIN padded |-> bits_to_byte(padded[k])])

\* ------------------------------------------------------ tree_to_bytes
RECURSIVE ttb_internal(_)
\* ttb_internal writing a left-leaf node's record before its right subtree.
ttb_internal_early_record(n) ==
  IF is_leaf(n) THEN <<0, n.symbol>>
  ELSE IF is_leaf(Left(n)) /\ is_leaf(Right(n))
       THEN <<0, Left(n).symbol, 0, Right(n).symbol>>
  ELSE IF is_leaf(Left(n))
       THEN <<0, Left(n).symbol, 1, Right(n).number>>
            \o ttb_internal(Right(n))
  ELSE IF is_leaf(Right(n))
       THEN ttb_internal(Left(n))
            \o <<1, Left(n).number, 0, Right(n).symbol>>
  ELSE ttb_internal(Left(n)) \o ttb_internal(Right(n))
       \o <<1, Left(n).number, 1, Right(n).number>>

ttb_internal(n) ==
  IF is_leaf(n) THEN <<0, n.symbol>>
  ELSE IF is_leaf(Left(n)) /\ is_leaf(Right(n))
       THEN <<0, Left(n).symbol, 0, Right(n).symbol>>
  ELSE IF is_leaf(Left(n))
       THEN ttb_internal(Right(n))
            \o <<0, Left(n).symbol, 1, Right(n).number>>
  ELSE IF is_leaf(Right(n))
       THEN ttb_internal(Left(n))
            \o <<1, Left(n).number, 0, Right(n).symbol>>
  ELSE ttb_internal(Left(n)) \o ttb_internal(Right(n))
       \o <<1, Left(n).number, 1, Right(n).number>>

\* bytes(lst)
ToBytes(lst) ==
  IF \E i \in DOMAIN lst : lst[i] = None THEN Raise("TypeError")
  ELSE IF \E i \in DOMAIN lst : ~IsByte(lst[i]) THEN Raise("ValueError")
  ELSE Ok(lst)

tree_to_bytes(n) == IF n = NoneTree THEN Ok(<<>>) ELSE ToBytes(ttb_internal(n))

num_nodes_to_bytes(n) ==
  IF n.number = None THEN Raise("TypeError") ELSE ToBytes(<<n.number + 1>>)

\* size.to_bytes(4, "little"): OverflowError from 2^32 on.
size_to_bytes(sz) ==
  IF sz \div 65536 >= 65536 THEN Raise("OverflowError")
  ELSE Ok([i \in 1..4 |-> (sz \div (256 ^ (i - 1))) % 256])

bytes_to_size(buf) == SumSeq([i \in DOMAIN buf |-> buf[i] * (256 ^ (i - 1))])

\* ------------------------------------------------------ bytes_to_nodes
ReadNode(lt, ld, rt, rd) ==
  [l_type |-> lt, l_data |-> ld, r_type |-> rt, r_data |-> rd]

bytes_to_nodes(buf) ==
  IF Len(buf) % 4 # 0 THEN Raise("IndexError")
  ELSE Ok([k \in 1..(Len(buf) \div 4) |->
             ReadNode(buf[4 * k - 3], buf[4 * k - 2], buf[4 * k - 1], buf[4 * k])])

\* ------------------------------------------------------ helper_generate_tree
\* HuffmanNode() with .number set: a child that refers to another record.
Placeholder(num) == [symbol |-> None, number |-> num, kids |-> <<>>]

ReadToNode(e) ==
  IF e.l_type = 0 /\ e.r_type = 0 THEN Node(Leaf(e.l_data), Leaf(e.r_data))
  ELSE IF e.l_type = 0 /\ e.r_type = 1
       THEN Node(Leaf(e.l_data), Placeholder(e.r_data))
  ELSE IF e.l_type = 1 /\ e.r_type = 0
       THEN Node(Placeholder(e.l_data), Leaf(e.r_data))
  ELSE Node(Placeholder(e.l_data), Placeholder(e.r_data))

helper_generate_tree(lst) == [k \in DOMAIN lst |-> ReadToNode(lst[k])]

\* ------------------------------------------------------ generate_tree_general
\* lst[i] for a Python index i: negative indices count from the end.
InRange(lst, i) == -Len(lst) <= i /\ i < Len(lst)

PyAt(lst, i) == IF i >= 0 THEN lst[i + 1] ELSE lst[Len(lst) + i + 1]

duplicate_node(n) == Node(Left(n), Right(n))

\* create_tree; fuel is the recursion depth left (a cycle of references
\* ends in RecursionError).
RECURSIVE create_tree(_, _, _)
create_tree(hl, n, fuel) ==
  IF HasSymbol(n) THEN Ok(n)
  ELSE IF fuel = 0 THEN Raise("RecursionError")
  ELSE IF Left(n).symbol = None /\ ~InRange(hl, Left(n).number)
       THEN Raise("IndexError")
  ELSE IF Right(n).symbol = None /\ ~InRange(hl, Right(n).number)
       THEN Raise("IndexError")
  ELSE LET l0 == IF Left(n).symbol = None
                 THEN duplicate_node(PyAt(hl, Left(n).number)) ELSE Left(n)
           r0 == IF Right(n).symbol = None
                 THEN duplicate_node(PyAt(hl, Right(n).number)) ELSE Right(n)
           r1 == create_tree(hl, r0, fuel - 1)
           l1 == create_tree(hl, l0, fuel - 1)
       IN IF r1.err # "none" THEN r1
          ELSE IF l1.err # "none" THEN l1
          ELSE Ok([n EXCEPT !.kids = <<l1.val, r1.val>>])

generate_tree_general(lst, root_index) ==
  LET hl == helper_generate_tree(lst)
  IN IF ~InRange(hl, root_index) THEN Raise("IndexError")
     ELSE create_tree(hl, duplicate_node(PyAt(hl, root_index)), Len(hl) + 1)

\* ------------------------------------------------------ generate_tree_postorder
\* One child slot of traversal(): a child whose symbol is falsy is replaced
\* by huffman_lst.pop(0) and, if records remain and one of its own children
\* has a falsy symbol, traversed in turn. [err, node, lst].
RECURSIVE traversal(_, _)
RECURSIVE TakeChild(_, _)
TakeChild(child, hl) ==
  IF ~Falsy(child.symbol) THEN [err |-> "none", node |-> child, lst |-> hl]
  ELSE IF hl = <<>> THEN [err |-> "IndexError", node |-> child, lst |-> hl]
  ELSE LET got == Head(hl)
           rest == Tail(hl)
       IN IF rest # <<>> /\ (Falsy(Left(got).symbol) \/ Falsy(Right(got).symbol))
          THEN traversal(got, rest)
          ELSE [err |-> "none", node |-> got, lst |-> rest]

traversal(n, hl) ==
  IF hl = <<>> THEN [err |-> "none", node |-> n, lst |-> hl]
  ELSE LET l == TakeChild(Left(n), hl)
       IN IF l.err # "none" THEN l
          ELSE LET r == TakeChild(Right(n), l.lst)
               IN IF r.err # "none" THEN r
                  ELSE [err |-> "none",
                        node |-> [n EXCEPT !.kids = <<l.node, r.node>>],
                        lst |-> r.lst]

\* lst without the element at Python index i (list.pop(i)).
PopAt(lst, i) ==
  LET k == IF i >= 0 THEN i + 1 ELSE Len(lst) + i + 1
  IN SubSeq(lst, 1, k - 1) \o SubSeq(lst, k + 1, Len(lst))

generate_tree_postorder(lst, root_index) ==
  LET hl == helper_generate_tree(lst)
  IN IF ~InRange(hl, root_index) THEN Raise("IndexError")
     ELSE LET r == traversal(PyAt(hl, root_index), PopAt(hl, root_index))
          IN IF r.err # "none" THEN Raise(r.err) ELSE Ok(r.node)

\* ------------------------------------------------------ generate_uncompressed
\* The scan of one_bit from index i, new_bit being the candidate so far.
RECURSIVE Scan(_, _, _, _, _, _)
Scan(one_bit, inv, sz, i, new_bit, lst_byte) ==
  IF i > Len(one_bit) THEN lst_byte
  ELSE LET nb == Append(new_bit, one_bit[i])
       IN IF nb \in DOMAIN inv
          THEN LET got == Append(lst_byte, inv[nb])
               IN IF Len(got) = sz THEN got
                  ELSE Scan(one_bit, inv, sz, i + 1, <<>>, got)
          ELSE Scan(one_bit, inv, sz, i + 1, nb, lst_byte)

generate_uncompressed(n, txt, sz) ==
  LET inv == invert_dict(get_codes(n))
      one_bit == Concat([i \in DOMAIN txt |-> byte_to_bits(txt[i])])
  IN ToBytes(Scan(one_bit, inv, sz, 1, <<>>, <<>>))

\* ------------------------------------------------------ improve_tree
\* l: the (value, key) pairs of freq_dict, sorted in reverse.
PairGt(a, b) == a[1] > b[1] \/ (a[1] = b[1] /\ a[2] > b[2])

RECURSIVE SortReverse(_)
SortReverse(ps) ==
  IF ps = {} THEN <<>>
  ELSE LET m == CHOOSE x \in ps : \A y \in ps \ {x} : PairGt(x, y)
       IN <<m>> \o SortReverse(ps \ {m})

RECURSIVE SortAsc(_)
SortAsc(xs) ==
  IF xs = {} THEN <<>>
  ELSE LET m == CHOOSE x \in xs : \A y \in xs : x <= y
       IN <<m>> \o SortAsc(xs \ {m})

\* byte.index(x), as a position from 1.
IndexOf(byte, x) == CHOOSE i \in DOMAIN byte : byte[i] = x /\ \A j \in 1..(i - 1) : byte[j] # x

\* byte after `byte[il[index]] = l[index][1]` for every index of il.
Reassign(byte, l) ==
  LET il == SortAsc({IndexOf(byte, l[i][2]) :
                       i \in {j \in DOMAIN l : l[j][2] \in Range(byte)}})
  IN [p \in DOMAIN byte |->
        IF \E j \in DOMAIN il : il[j] = p
        THEN l[CHOOSE j \in DOMAIN il : il[j] = p][2]
        ELSE byte[p]]

\* [err, tree: the tree after the call, t: the pair of line 607].
improve_tree(n, freq_dict) ==
  LET same == [err |-> "none", tree |-> n, t |-> <<>>]
      bt == tree_to_bytes(n)
  IN IF bt.err # "none" THEN [same EXCEPT !.err = bt.err]
     ELSE LET l == SortReverse({<<freq_dict[i][2], freq_dict[i][1]>> :
                                  i \in DOMAIN freq_dict})
              byte == Reassign(bt.val, l)
              nl == bytes_to_nodes(byte)
          IN IF nl.err # "none" THEN [same EXCEPT !.err = nl.err]
             ELSE LET new_tree == generate_tree_postorder(nl.val, Len(nl.val) - 1)
                  IN IF new_tree.err # "none" THEN [same EXCEPT !.err = new_tree.err]
                     ELSE LET a == avg_length(n, freq_dict)
                              b == avg_length(new_tree.val, freq_dict)
                          IN IF a.err # "none" THEN [same EXCEPT !.err = a.err]
                             ELSE IF b.err # "none" THEN [same EXCEPT !.err = b.err]
                             ELSE [err |-> "none",
                                   tree |-> [n EXCEPT !.kids = new_tree.val.kids],
                                   t |-> <<a.val, b.val>>]

\* ================================================================ inputs
\* Every sequence over S of length n, and of length lo..hi.
SeqsOfLen(S, n) == [1..n -> S]

SeqsUpTo(S, lo, hi) == UNION {SeqsOfLen(S, n) : n \in lo..hi}

\* Every binary tree shape with n leaves (the leaves carry no symbol yet).
RECURSIVE Shapes(_)
Shapes(n) ==
  IF n = 1 THEN {Leaf(None)}
  ELSE UNION {{Node(l, r) : l \in Shapes(k), r \in Shapes(n - k)} : k \in 1..(n - 1)}

\* The shape with its leaves given the symbols of syms, left to right.
RECURSIVE Label(_, _)
Label(shape, syms) ==
  IF is_leaf(shape) THEN [tree |-> Leaf(Head(syms)), rest |-> Tail(syms)]
  ELSE LET l == Label(Left(shape), syms)
           r == Label(Right(shape), l.rest)
       IN [tree |-> Node(l.tree, r.tree), rest |-> r.rest]

Distinct(s) == \A i, j \in DOMAIN s : i # j => s[i] # s[j]

\* Every tree of lo..hi leaves whose leaves carry distinct symbols.
TreesOf(lo, hi) ==
  UNION {{Label(sh, p).tree : sh \in Shapes(n),
                              p \in {q \in SeqsOfLen(Symbols, n) : Distinct(q)}}
         : n \in lo..hi}

InputTrees == TreesOf(2, MaxLeaves)

RECURSIVE Leaves(_)
Leaves(n) ==
  IF is_leaf(n) THEN <<n.symbol>> ELSE Leaves(Left(n)) \o Leaves(Right(n))

Unset ==
  /\ freq = <<>> /\ tree = NoneTree /\ codes = EmptyDict /\ result = <<>>
  /\ node_lst = <<>> /\ gen_tree = NoneTree /\ post_tree = NoneTree
  /\ old_tree = NoneTree /\ t = <<>> /\ size = 0 /\ out = <<>> /\ err = "none"
  /\ worklist = <<>>

\* ================================================================ compress, uncompress
Init ==
  /\ pc = "start"
  /\ text \in SeqsUpTo(Symbols, 0, MaxLen)
  /\ Unset

Fail(e) == pc' = "error" /\ err' = e

\* compress, line 393
MakeFreqDict ==
  /\ pc = "start"
  /\ freq' = make_freq_dict(text)
  /\ pc' = "freq"
  /\ UNCHANGED <<worklist, text, tree, codes, result, node_lst, gen_tree, post_tree,
                 old_tree, t, size, out, err>>

\* compress, line 394
HuffmanTree ==
  /\ pc = "freq"
  /\ tree' = huffman_tree(freq)
  /\ pc' = "tree"
  /\ UNCHANGED <<worklist, text, freq, codes, result, node_lst, gen_tree, post_tree,
                 old_tree, t, size, out, err>>

\* compress, line 395
GetCodes ==
  /\ pc = "tree"
  /\ codes' = get_codes(tree)
  /\ pc' = "codes"
  /\ UNCHANGED <<worklist, text, freq, tree, result, node_lst, gen_tree, post_tree,
                 old_tree, t, size, out, err>>

\* compress, line 396
NumberNodes ==
  /\ pc = "codes"
  /\ LET r == number_nodes(tree)
     IN IF r.err # "none" THEN Fail(r.err) /\ UNCHANGED tree
        ELSE pc' = "numbered" /\ tree' = r.val /\ UNCHANGED err
  /\ UNCHANGED <<worklist, text, freq, codes, result, node_lst, gen_tree, post_tree,
                 old_tree, t, size, out>>

\* compress, line 397: the bits per symbol printed
PrintAvgLength ==
  /\ pc = "numbered"
  /\ LET r == avg_length(tree, freq)
     IN IF r.err # "none" THEN Fail(r.err) /\ UNCHANGED t
        ELSE pc' = "printed" /\ t' = <<r.val>> /\ UNCHANGED err
  /\ UNCHANGED <<worklist, text, freq, tree, codes, result, node_lst, gen_tree, post_tree,
                 old_tree, size, out>>

\* compress, lines 398-399
Header ==
  /\ pc = "printed"
  /\ LET a == num_nodes_to_bytes(tree)
         b == tree_to_bytes(tree)
         c == size_to_bytes(Len(text))
     IN IF a.err # "none" THEN Fail(a.err) /\ UNCHANGED result
        ELSE IF b.err # "none" THEN Fail(b.err) /\ UNCHANGED result
        ELSE IF c.err # "none" THEN Fail(c.err) /\ UNCHANGED result
        ELSE pc' = "header" /\ result' = a.val \o b.val \o c.val /\ UNCHANGED err
  /\ UNCHANGED <<worklist, text, freq, tree, codes, node_lst, gen_tree, post_tree,
                 old_tree, t, size, out>>

\* compress, lines 400-402
GenerateCompressed ==
  /\ pc = "header"
  /\ LET r == generate_compressed(text, codes)
     IN IF r.err # "none" THEN Fail(r.err) /\ UNCHANGED result
        ELSE pc' = "compressed" /\ result' = result \o r.val /\ UNCHANGED err
  /\ UNCHANGED <<worklist, text, freq, tree, codes, node_lst, gen_tree, post_tree,
                 old_tree, t, size, out>>

\* What f.read(n) returns of buf from offset off (fewer bytes at the end).
ReadAt(buf, off, n) ==
  SubSeq(buf, off + 1, IF off + n <= Len(buf) THEN off + n ELSE Len(buf))

\* uncompress, lines 561-563
ReadNodes ==
  /\ pc = "compressed"
  /\ IF result = <<>> THEN Fail("IndexError") /\ UNCHANGED node_lst
     ELSE LET num_nodes == result[1]
              r == bytes_to_nodes(ReadAt(result, 1, num_nodes * 4))
          IN IF r.err # "none" THEN Fail(r.err) /\ UNCHANGED node_lst
             ELSE pc' = "nodes" /\ node_lst' = r.val /\ UNCHANGED err
  /\ UNCHANGED <<worklist, text, freq, tree, codes, result, gen_tree, post_tree,
                 old_tree, t, size, out>>

\* uncompress, line 564
GenerateTreeGeneral ==
  /\ pc = "nodes"
  /\ LET r == generate_tree_general(node_lst, result[1] - 1)
     IN IF r.err # "none" THEN Fail(r.err) /\ UNCHANGED gen_tree
        ELSE pc' = "rebuilt" /\ gen_tree' = r.val /\ UNCHANGED err
  /\ UNCHANGED <<worklist, text, freq, tree, codes, result, node_lst, post_tree,
                 old_tree, t, size, out>>

\* uncompress, lines 565-568
GenerateUncompressed ==
  /\ pc = "rebuilt"
  /\ LET off == 1 + result[1] * 4
         sz == bytes_to_size(ReadAt(result, off, 4))
         r == generate_uncompressed(gen_tree, ReadAt(result, off + 4, Len(result)), sz)
     IN /\ size' = sz
        /\ IF r.err # "none" THEN Fail(r.err) /\ UNCHANGED out
           ELSE pc' = "done" /\ out' = r.val /\ UNCHANGED err
  /\ UNCHANGED <<worklist, text, freq, tree, codes, result, node_lst, gen_tree, post_tree,
                 old_tree, t>>

Next ==
  \/ MakeFreqDict
  \/ HuffmanTree
  \/ GetCodes
  \/ NumberNodes
  \/ PrintAvgLength
  \/ Header
  \/ GenerateCompressed
  \/ ReadNodes
  \/ GenerateTreeGeneral
  \/ GenerateUncompressed

Spec == Init /\ [][Next]_vars

\* ================================================================ tree codec
\* A tree is numbered, serialised, read back as records and rebuilt by
\* each of the two deserialisers.
AllUnset ==
  /\ text = <<>> /\ freq = <<>> /\ codes = EmptyDict /\ result = <<>>
  /\ node_lst = <<>> /\ gen_tree = NoneTree /\ post_tree = NoneTree
  /\ old_tree = NoneTree /\ t = <<>> /\ size = 0 /\ out = <<>> /\ err = "none"
  /\ worklist = <<>>

InitTree ==
  /\ pc = "tree"
  /\ tree \in InputTrees
  /\ AllUnset

TNumberNodes ==
  /\ pc = "tree"
  /\ LET r == number_nodes(tree)
     IN IF r.err # "none" THEN Fail(r.err) /\ UNCHANGED tree
        ELSE pc' = "numbered" /\ tree' = r.val /\ UNCHANGED err
  /\ UNCHANGED <<worklist, text, freq, codes, result, node_lst, gen_tree, post_tree,
                 old_tree, t, size, out>>

TTreeToBytes ==
  /\ pc = "numbered"
  /\ LET r == tree_to_bytes(tree)
     IN IF r.err # "none" THEN Fail(r.err) /\ UNCHANGED result
        ELSE pc' = "bytes" /\ result' = r.val /\ UNCHANGED err
  /\ UNCHANGED <<worklist, text, freq, tree, codes, node_lst, gen_tree, post_tree,
                 old_tree, t, size, out>>

TBytesToNodes ==
  /\ pc = "bytes"
  /\ LET r == bytes_to_nodes(result)
     IN IF r.err # "none" THEN Fail(r.err) /\ UNCHANGED node_lst
        ELSE pc' = "nodes" /\ node_lst' = r.val /\ UNCHANGED err
  /\ UNCHANGED <<worklist, text, freq, tree, codes, result, gen_tree, post_tree,
                 old_tree, t, size, out>>

\* generate_tree_general(node_lst, tree.number)
TGeneral ==
  /\ pc = "nodes"
  /\ LET r == generate_tree_general(node_lst, tree.number)
     IN IF r.err # "none" THEN Fail(r.err) /\ UNCHANGED gen_tree
        ELSE pc' = "general" /\ gen_tree' = r.val /\ UNCHANGED err
  /\ UNCHANGED <<worklist, text, freq, tree, codes, result, node_lst, post_tree,
                 old_tree, t, size, out>>

\* generate_tree_postorder(node_lst, len(node_lst) - 1), on the same records
TPostorder ==
  /\ pc = "general"
  /\ LET r == generate_tree_postorder(node_lst, Len(node_lst) - 1)
     IN /\ pc' = "both"
        /\ IF r.err # "none" THEN err' = r.err /\ UNCHANGED post_tree
           ELSE post_tree' = r.val /\ UNCHANGED err
  /\ UNCHANGED <<worklist, text, freq, tree, codes, result, node_lst, gen_tree,
                 old_tree, t, size, out>>

NextTree ==
  \/ TNumberNodes
  \/ TTreeToBytes
  \/ TBytesToNodes
  \/ TGeneral
  \/ TPostorder

SpecTree == InitTree /\ [][NextTree]_vars

\* ================================================================ improve_tree
\* Every frequency table over the keys ks, listed in the order of ks.
MaxCount == 2

FreqTables(ks) ==
  {[i \in DOMAIN ks |-> <<ks[i], f[i]>>] : f \in [DOMAIN ks -> 1..MaxCount]}

InitImprove ==
  /\ pc = "tree"
  /\ tree \in InputTrees
  /\ AllUnset

INumberNodes ==
  /\ pc = "tree"
  /\ LET r == number_nodes(tree)
     IN IF r.err # "none" THEN Fail(r.err) /\ UNCHANGED tree
        ELSE pc' = "numbered" /\ tree' = r.val /\ UNCHANGED err
  /\ UNCHANGED <<worklist, text, freq, codes, result, node_lst, gen_tree, post_tree,
                 old_tree, t, size, out>>

\* improve_tree(tree, F) for a table F of the tree's leaf symbols and,
\* possibly, one more symbol.
ImproveTree ==
  /\ pc = "numbered"
  /\ \E extra \in {<<>>} \cup {<<x>> : x \in Symbols \ Range(Leaves(tree))} :
       \E F \in FreqTables(Leaves(tree) \o extra) :
         LET r == improve_tree(tree, F)
         IN /\ freq' = F
            /\ old_tree' = tree
            /\ tree' = r.tree
            /\ t' = r.t
            /\ err' = r.err
            /\ pc' = "improved"
  /\ UNCHANGED <<worklist, text, codes, result, node_lst, gen_tree, post_tree, size, out>>

NextImprove ==
  \/ INumberNodes
  \/ ImproveTree

SpecImprove == InitImprove /\ [][NextImprove]_vars

\* ================================================================ packer
\* generate_compressed on any text over two symbols and any code table.
PackSymbols == {0, 1}

BitStrings(n) == SeqsUpTo({0, 1}, 0, n)

InitPack ==
  /\ pc = "start"
  /\ text \in SeqsUpTo(PackSymbols, 0, MaxPackLen)
  /\ codes \in [PackSymbols -> BitStrings(MaxCodeLen)]
  /\ freq = <<>> /\ tree = NoneTree /\ result = <<>>
  /\ node_lst = <<>> /\ gen_tree = NoneTree /\ post_tree = NoneTree
  /\ old_tree = NoneTree /\ t = <<>> /\ size = 0 /\ out = <<>> /\ err = "none"
  /\ worklist = <<>>

PGenerateCompressed ==
  /\ pc = "start"
  /\ LET r == generate_compressed(text, codes)
     IN IF r.err # "none" THEN Fail(r.err) /\ UNCHANGED result
        ELSE pc' = "packed" /\ result' = r.val /\ UNCHANGED err
  /\ UNCHANGED <<worklist, text, freq, tree, codes, node_lst, gen_tree, post_tree,
                 old_tree, t, size, out>>

NextPack == PGenerateCompressed

SpecPack == InitPack /\ [][NextPack]_vars

\* ================================================================ unpacker
\* A text over a tree's symbols is packed, the payload may lose trailing
\* bytes, and generate_uncompressed is asked for len(text) symbols.
InitUnpack ==
  /\ pc = "start"
  /\ tree \in InputTrees
  /\ text \in SeqsUpTo(Range(Leaves(tree)), 1, MaxPackLen)
  /\ freq = <<>> /\ codes = EmptyDict /\ result = <<>>
  /\ node_lst = <<>> /\ gen_tree = NoneTree /\ post_tree = NoneTree
  /\ old_tree = NoneTree /\ t = <<>> /\ size = 0 /\ out = <<>> /\ err = "none"
  /\ worklist = <<>>

UGenerateCompressed ==
  /\ pc = "start"
  /\ LET cd == get_codes(tree)
         r == generate_compressed(text, cd)
     IN /\ codes' = cd
        /\ size' = Len(text)
        /\ IF r.err # "none" THEN Fail(r.err) /\ UNCHANGED result
           ELSE pc' = "packed" /\ result' = r.val /\ UNCHANGED err
  /\ UNCHANGED <<worklist, text, freq, tree, node_lst, gen_tree, post_tree,
                 old_tree, t, out>>

\* The stored payload is cut short: it keeps its first k bytes.
UTruncate ==
  /\ pc = "packed"
  /\ \E k \in 0..(Len(result) - 1) : result' = SubSeq(result, 1, k)
  /\ pc' = "truncated"
  /\ UNCHANGED <<worklist, text, freq, tree, codes, node_lst, gen_tree, post_tree,
                 old_tree, t, size, out, err>>

UGenerateUncompressed ==
  /\ pc \in {"packed", "truncated"}
  /\ LET r == generate_uncompressed(tree, result, size)
     IN IF r.err # "none" THEN Fail(r.err) /\ UNCHANGED out
        ELSE /\ pc' = (IF pc = "packed" THEN "unpacked" ELSE "unpacked_short")
             /\ out' = r.val
             /\ UNCHANGED err
  /\ UNCHANGED <<worklist, text, freq, tree, codes, result, node_lst, gen_tree, post_tree,
                 old_tree, t, size>>

NextUnpack ==
  \/ UGenerateCompressed
  \/ UTruncate
  \/ UGenerateUncompressed

SpecUnpack == InitUnpack /\ [][NextUnpack]_vars

\* ================================================================ huffman_tree
\* huffman_tree(freq_tup), one call of internal() at a time. worklist is the
\* sorted_tup the next call of internal() receives.
MaxWeight == 3

\* The table {0: f[1], 1: f[2], ...} of n symbols, for every counts f.
WeightTables(n) ==
  {[i \in 1..n |-> <<i - 1, f[i]>>] : f \in [1..n -> 1..MaxWeight]}

InitHuffman ==
  /\ pc = "freq"
  /\ freq \in UNION {WeightTables(n) : n \in 0..MaxLeaves}
  /\ text = <<>> /\ tree = NoneTree /\ codes = EmptyDict /\ result = <<>>
  /\ node_lst = <<>> /\ gen_tree = NoneTree /\ post_tree = NoneTree
  /\ old_tree = NoneTree /\ t = <<>> /\ size = 0 /\ out = <<>> /\ err = "none"
  /\ worklist = <<>>

\* sorted_tup = sort_freq(freq_tup), line 152
HSortFreq ==
  /\ pc = "freq"
  /\ worklist' = sort_freq(freq)
  /\ pc' = "internal"
  /\ UNCHANGED <<text, freq, tree, codes, result, node_lst, gen_tree, post_tree,
                 old_tree, t, size, out, err>>

\* A call of internal() that reaches the recursive call, lines 165-170
HInternal ==
  /\ pc = "internal"
  /\ Len(freq) # 1
  /\ worklist # <<>>
  /\ Len(worklist) # 1
  /\ worklist' = MergeLeast(worklist)
  /\ UNCHANGED <<pc, text, freq, tree, codes, result, node_lst, gen_tree,
                 post_tree, old_tree, t, size, out, err>>

\* A call of internal() that returns, lines 158-164, and t = internal(...)
HReturn ==
  /\ pc = "internal"
  /\ ~(Len(freq) # 1 /\ worklist # <<>> /\ Len(worklist) # 1)
  /\ tree' = ht_internal(Len(freq), worklist)
  /\ pc' = "tree"
  /\ UNCHANGED <<worklist, text, freq, codes, result, node_lst, gen_tree,
                 post_tree, old_tree, t, size, out, err>>

NextHuffman ==
  \/ HSortFreq
  \/ HInternal
  \/ HReturn

SpecHuffman == InitHuffman /\ [][NextHuffman]_vars

\* ================================================================ properties
\* a is a prefix of b (a = b included).
IsPrefix(a, b) == Len(a) <= Len(b) /\ SubSeq(b, 1, Len(a)) = a

\* Same shape and the same symbol at every leaf position.
RECURSIVE SameTree(_, _)
SameTree(a, b) ==
  /\ is_leaf(a) = is_leaf(b)
  /\ IF is_leaf(a) THEN a.symbol = b.symbol
     ELSE SameTree(Left(a), Left(b)) /\ SameTree(Right(a), Right(b))

\* Same branching structure, whatever the leaves hold.
RECURSIVE SameShape(_, _)
SameShape(a, b) ==
  /\ is_leaf(a) = is_leaf(b)
  /\ (~is_leaf(a) => SameShape(Left(a), Left(b)) /\ SameShape(Right(a), Right(b)))

\* The numbers of the internal nodes: left subtree, right subtree, the node.
RECURSIVE PostorderNumbers(_)
PostorderNumbers(n) ==
  IF is_leaf(n) THEN <<>>
  ELSE PostorderNumbers(Left(n)) \o PostorderNumbers(Right(n)) \o <<n.number>>

\* The numbers the leaves carry, left to right.
RECURSIVE LeafNumbers(_)
LeafNumbers(n) ==
  IF is_leaf(n) THEN <<n.number>> ELSE LeafNumbers(Left(n)) \o LeafNumbers(Right(n))

\* C1: every non-empty buffer, whatever the number of distinct byte values,
\* goes through compress and then uncompress without an error, and the
\* output is the buffer.
RoundTrip ==
  text # <<>> => /\ pc # "error"
                 /\ (pc = "done" => out = text)

\* C2: for a numbered tree of at least 2 leaves, generate_tree_general on the
\* records of tree_to_bytes, from the root's number, returns a tree of the
\* same shape with the same symbol at every leaf; no step of it fails.
SerializeDeserializeIdentity ==
  /\ pc # "error"
  /\ (pc \in {"general", "both"} => SameTree(gen_tree, tree))

SerializeDeserializeWitness ==
  /\ pc = "general"
  /\ Len(Leaves(tree)) = 4
  /\ ~is_leaf(Left(tree))
  /\ is_leaf(Left(Left(tree)))
  /\ ~is_leaf(Right(Left(tree)))

\* C3: after number_nodes the k internal nodes carry 0..k-1 in postorder,
\* the root carries k-1 and no leaf carries a number.
PostorderNumbering ==
  pc \notin {"tree", "error"} =>
    LET k == Len(Leaves(tree)) - 1
    IN /\ PostorderNumbers(tree) = [i \in 1..k |-> i - 1]
       /\ tree.number = k - 1
       /\ \A i \in DOMAIN LeafNumbers(tree) : LeafNumbers(tree)[i] = None

PostorderNumberingWitness ==
  /\ pc = "numbered"
  /\ ~is_leaf(Left(tree))
  /\ ~is_leaf(Right(tree))
  /\ Left(tree).number = 0
  /\ Right(tree).number = 1

\* C4: the code table of the tree built from a frequency table has one entry
\* per symbol of the table, and no code of it is a prefix of another.
PrefixFreeCodes ==
  pc \notin {"start", "freq", "tree"} =>
    /\ DOMAIN codes = DictKeys(freq)
    /\ \A a, b \in DOMAIN codes : a # b => ~IsPrefix(codes[a], codes[b])

PrefixFreeWitness ==
  /\ pc = "codes"
  /\ Cardinality(DOMAIN codes) = 3
  /\ \E a, b \in DOMAIN codes : Len(codes[a]) = 1 /\ Len(codes[b]) = 2

\* The calls whose input improve_tree reads as meant: freq_dict holds exactly
\* the leaf symbols, and the first byte of the serialised tree equal to a
\* leaf symbol is that leaf's own symbol byte (a data byte after a type 0).
ReadAsMeant(n, fd) ==
  LET bt == ttb_internal(n)
  IN /\ DictKeys(fd) = Range(Leaves(n))
     /\ \A k \in DictKeys(fd) :
          /\ IndexOf(bt, k) % 2 = 0
          /\ bt[IndexOf(bt, k) - 1] = 0

\* The leaf symbols as a bag: how many leaves carry each symbol.
LeafCount(n, x) == Cardinality({i \in DOMAIN Leaves(n) : Leaves(n)[i] = x})

\* C5: with a frequency table that has an entry for each leaf symbol, the
\* average code length after improve_tree is at most the one before it
\* (t: the two values improve_tree itself computes at line 607).
OptimizerNonRegression ==
  (pc = "improved" /\ err = "none" /\ ReadAsMeant(old_tree, freq)) => t[2] <= t[1]

\* C6: improve_tree leaves the branching structure as it was and keeps the
\* leaf symbols, none lost and none duplicated.
ShapePreserved ==
  (pc = "improved" /\ err = "none" /\ ReadAsMeant(old_tree, freq)) =>
     /\ SameShape(tree, old_tree)
     /\ \A x \in Symbols \cup {None} : LeafCount(tree, x) = LeafCount(old_tree, x)

\* C7: on the records of a numbered tree, generate_tree_postorder returns
\* the tree generate_tree_general returns, whatever the depth and the symbols.
StrategiesAgree ==
  pc = "both" => err = "none" /\ SameTree(post_tree, gen_tree)

\* C8: generate_uncompressed does not return fewer than `size` symbols as a
\* result: when the payload bits run out first, the call fails.
ShortPayloadFails ==
  pc \in {"unpacked", "unpacked_short"} => Len(out) = size

\* The code bits of the text, in input order.
CodeBits == Concat([i \in DOMAIN text |-> codes[text[i]]])

\* The bits of a byte, most significant first.
MsbFirst(b) == [i \in 1..8 |-> (b \div (2 ^ (8 - i))) % 2]

\* C9: for a non-empty text whose code bits number L > 0, generate_compressed
\* returns ceil(L / 8) bytes whose bits, most significant first, are the code
\* bits followed by 0 to 7 '0' bits.
PackedBits ==
  (pc # "start" /\ text # <<>> /\ Len(CodeBits) > 0) =>
     LET L == Len(CodeBits)
         pad == 8 * Len(result) - L
     IN /\ pc = "packed"
        /\ Len(result) = (L + 7) \div 8
        /\ pad \in 0..7
        /\ \A i \in DOMAIN result : IsByte(result[i])
        /\ Concat([i \in DOMAIN result |-> MsbFirst(result[i])]) = CodeBits \o Zeros(pad)

PackedBitsWitness ==
  /\ pc = "packed"
  /\ Len(CodeBits) = 9
  /\ Len(result) = 2
  /\ result[2] = 128

\* C10: generate_compressed on an empty text returns the empty byte string
\* and raises nothing.
EmptyTextPacks ==
  (pc # "start" /\ text = <<>>) => pc = "packed" /\ result = <<>>

\* The items of a list as a bag: how many times each one occurs.
BagOf(s) == [x \in Range(s) |-> Cardinality({i \in DOMAIN s : s[i] = x})]

\* The list without its items at the positions in gone.
RECURSIVE Without(_, _)
Without(s, gone) ==
  IF s = <<>> THEN <<>>
  ELSE Without(SubSeq(s, 1, Len(s) - 1), gone)
         \o (IF Len(s) \in gone THEN <<>> ELSE <<s[Len(s)]>>)

\* One call of internal() took two items a and b that no other item weighs
\* less than, and put back in their place one item of weight a + b that pairs them.
TwoLeastCombined(before, after) ==
  \E i, j \in DOMAIN before, m \in DOMAIN after :
    /\ i # j
    /\ \A k \in DOMAIN before \ {i, j} :
         before[i].freq <= before[k].freq /\ before[j].freq <= before[k].freq
    /\ after[m] = Comb(before[i].freq + before[j].freq, before[i], before[j])
    /\ BagOf(Without(after, {m})) = BagOf(Without(before, {i, j}))

\* Sum over the leaves of depth times the leaf symbol's count (w: symbol -> count).
RECURSIVE WeightedLength(_, _, _)
WeightedLength(n, depth, w) ==
  IF is_leaf(n) THEN depth * w[n.symbol]
  ELSE WeightedLength(Left(n), depth + 1, w) + WeightedLength(Right(n), depth + 1, w)

\* Every arrangement of the symbols 0..n-1 in a row.
Arrangements(n) == {q \in SeqsOfLen(0..(n - 1), n) : Distinct(q)}

\* Every binary tree whose leaves are the symbols 0..n-1, each once, for
\* every n of 2..MaxLeaves.
TreesOn ==
  [n \in 2..MaxLeaves |->
     {Label(sh, p).tree : sh \in Shapes(n), p \in Arrangements(n)}]

\* The tree huffman_tree returned has each symbol of the table at one leaf
\* and no binary tree on these symbols has a smaller weighted length.
OptimalTree ==
  LET N == Len(freq)
      w == [k \in DictKeys(freq) |-> DictVal(freq, k)]
  IN /\ tree # NoneTree
     /\ Len(Leaves(tree)) = N
     /\ Range(Leaves(tree)) = DictKeys(freq)
     /\ \A u \in TreesOn[N] : WeightedLength(tree, 0, w) <= WeightedLength(u, 0, w)

\* C11: for a table of N >= 2 symbols, each call of internal() that recurses
\* combines two items of lowest weight into one item whose weight is their
\* sum, and the tree huffman_tree returns has exactly the N symbols as its
\* leaves, each once, with a weighted code length (sum of depth times
\* count) no binary tree on those N symbols undercuts.
GreedyOptimalTree ==
  /\ [][(pc = "internal" /\ pc' = "internal" /\ Len(freq) >= 2)
          => TwoLeastCombined(worklist, worklist')]_vars
  /\ []((pc = "tree" /\ Len(freq) >= 2) => OptimalTree)

\* Four symbols whose tree is not the balanced one: a leaf hangs off the root.
GreedyOptimalWitness ==
  /\ pc = "tree"
  /\ Len(freq) = 4
  /\ is_leaf(Left(tree)) \/ is_leaf(Right(tree))
  /\ \E i, j \in DOMAIN freq : freq[i][2] < freq[j][2]

====
